---- MODULE Spec2Model ----
(***************************************************************************)
(* Model of the policy lifecycle and experimentation control plane of      *)
(* thinking-machine: the storage operations of src/libs/db.py over the     *)
(* tables policy_versions, proposals, experiments, experiment_runs,        *)
(* user_policies, users and traces; the overlay composition of             *)
(* src/services/core_agent/core_agent.py (deep_merge,                      *)
(* apply_user_policy_overlay); and the preference inference and the        *)
(* personalization cycle of src/services/meta_agent/user_preferences_meta.py.*)
(*                                                                         *)
(* Every db.py function opens its own connection (get_conn), runs its      *)
(* statements in one psycopg2 transaction (READ COMMITTED, the PostgreSQL  *)
(* default) and commits.  A function of one statement is one atomic        *)
(* action.  A function of several statements is one action per statement   *)
(* plus its commit: its writes stay private to the transaction (and lock   *)
(* the rows written) until the commit makes them visible.                  *)
(***************************************************************************)
EXTENDS Integers, Sequences, FiniteSets, TLC

\* ------------------------------------------------------------------ bounds
MaxPolicies == 3
NumWorkers == 2

Workers == 1..NumWorkers
\* policy_id arguments: ids of rows that exist, or do not exist (yet)
PolicyIds == 1..MaxPolicies

\* None / no row (fetchone() returned nothing)
NoRow == 0

\* the absent (None / NULL) value of a text field
None == "None"

VARIABLES
    policy_versions,   \* committed table: sequence of rows, id = index = creation order
    sap,               \* per worker: the set_active_policy transaction in flight
    last_read,         \* what the last get_active_policy_version observed and returned
    proposals,         \* committed table: sequence of rows, id = index
    experiments,       \* committed table: sequence of rows, id = index
    experiment_runs,   \* committed table: sequence of rows, id = index
    user_policies,     \* committed table: function id -> row
    ups,               \* per worker: the upsert_user_policy_overlay transaction in flight
    up_seq,            \* the id sequence of user_policies (last id handed out)
    clock,             \* NOW(): a logical clock, one tick per transaction start
    upsert_log,        \* history: per user, what each completed upsert wrote and returned
    args,              \* the arguments of the pure-function call under examination
    traces,            \* committed table: per user, the feedback of the user's traces, newest first
    users,             \* committed table: user id -> the row's profile
    cycle,             \* run_user_preference_meta_cycle: its locals and its position
    upp,               \* per worker: the update_user_profile_preferences call in flight
    last_call          \* history: the last completed call, with what it returned

policyVars == <<policy_versions, sap, last_read>>
proposalVars == <<proposals>>
experimentVars == <<experiments, experiment_runs>>
overlayVars == <<user_policies, ups, up_seq, clock, upsert_log>>
callVars == <<args>>
cycleVars == <<traces, users, cycle, upp>>
vars == <<policy_versions, sap, last_read, proposals, experiments, experiment_runs,
          user_policies, ups, up_seq, clock, upsert_log, args, traces, users, cycle,
          upp, last_call>>

\* the tables a call on one table leaves alone
exceptPolicy == <<proposalVars, experimentVars, overlayVars, callVars, cycleVars>>
exceptProposals == <<policyVars, experimentVars, overlayVars, callVars, cycleVars>>
exceptExperiments == <<policyVars, proposalVars, overlayVars, callVars, cycleVars>>
exceptOverlay == <<policyVars, proposalVars, experimentVars, callVars, cycleVars>>
\* what a pure function leaves alone: every table
exceptCall == <<policyVars, proposalVars, experimentVars, overlayVars, cycleVars>>
\* what the personalization cycle's own steps leave alone
exceptCycle == <<policyVars, proposalVars, experimentVars, overlayVars, callVars>>

\* ------------------------------------------------------------ helpers
Max(S) == CHOOSE x \in S : \A y \in S : y <= x

NoCall == [op |-> "none", arg |-> NoRow, ret |-> {}]

\* ------------------------------------------------------------ JSON values
\* A Python value that travels as JSON carries its kind: a dict is [d |-> f],
\* f the function from its keys to its values; any other value (a string, a
\* number, a boolean, None) is [s |-> x].
Scalar(x) == [s |-> x]
Dict(f) == [d |-> f]

\* isinstance(v, dict)
IsDict(v) == "d" \in DOMAIN v

\* {}
EmptyDict == Dict(<<>>)

\* d.get(k, default)
Get(v, k, default) == IF k \in DOMAIN v.d THEN v.d[k] ELSE default

\* d[k] = x
Put(v, k, x) == Dict([j \in DOMAIN v.d \cup {k} |-> IF j = k THEN x ELSE v.d[j]])

\* not x, for the values an optional dict argument takes: None and {}
Falsy(v) == v = Scalar(None) \/ v = EmptyDict

\* --------------------------------------------------------------- deep_merge
\* faulty variant of deep_merge, the one its docstring describes ("a wins type
\* conflicts"): where only one side holds a dict, the base value is kept
RECURSIVE deep_merge_a_wins_type_conflicts(_, _)
deep_merge_a_wins_type_conflicts(a, b) ==
    Dict([k \in DOMAIN a.d \cup DOMAIN b.d |->
            IF k \notin DOMAIN b.d THEN a.d[k]
            ELSE IF k \notin DOMAIN a.d THEN b.d[k]
            ELSE IF IsDict(a.d[k]) /\ IsDict(b.d[k])
                 THEN deep_merge_a_wins_type_conflicts(a.d[k], b.d[k])
            ELSE IF IsDict(a.d[k]) # IsDict(b.d[k]) THEN a.d[k]
            ELSE b.d[k]])

\* faulty variant of deep_merge: the result starts empty instead of as a copy
\* of a, so only the keys of b survive
RECURSIVE deep_merge_from_empty(_, _)
deep_merge_from_empty(a, b) ==
    Dict([k \in DOMAIN b.d |->
            IF k \in DOMAIN a.d /\ IsDict(a.d[k]) /\ IsDict(b.d[k])
            THEN deep_merge_from_empty(a.d[k], b.d[k])
            ELSE b.d[k]])

\* result = copy.deepcopy(a); for k, v in b.items(): result[k] is the merge of
\* result[k] and v where both are dicts, else v.  Each key of b is visited
\* once, so the loop's outcome is given key by key.
RECURSIVE deep_merge(_, _)
deep_merge(a, b) ==
    Dict([k \in DOMAIN a.d \cup DOMAIN b.d |->
            IF k \notin DOMAIN b.d THEN a.d[k]
            ELSE IF k \in DOMAIN a.d /\ IsDict(a.d[k]) /\ IsDict(b.d[k])
                 THEN deep_merge(a.d[k], b.d[k])
                 ELSE b.d[k]])

\* the mappings the merge is examined on
MergeKeys == {"k1", "k2"}
TopKeys == {"k1", "k2", "k3"}
MergeScalars == {Scalar("x"), Scalar("y")}

\* every dict from some of the keys to the values
DictsOver(keys, values) == {Dict(f) : f \in UNION {[ks -> values] : ks \in SUBSET keys}}

FlatDicts == DictsOver(MergeKeys, MergeScalars)
NestedDicts == DictsOver(MergeKeys, MergeScalars \cup FlatDicts)

\* the part of a dict that one owner holds, when each key has one owner
Part(own, val, who) == Dict([k \in {j \in DOMAIN own : own[j] = who} |-> val[k]])

NoArgs == [none |-> TRUE]

\* deep_merge(a, b) on a pair of mappings
deep_merge_call ==
    /\ last_call.op = "none"
    /\ DOMAIN args = {"a", "b"}
    /\ last_call' = [op |-> "deep_merge", arg |-> args,
                     ret |-> deep_merge(args.a, args.b)]
    /\ UNCHANGED callVars
    /\ UNCHANGED exceptCall

\* deep_merge over three mappings, grouped to the left and to the right
deep_merge_chain ==
    /\ last_call.op = "none"
    /\ DOMAIN args = {"a", "b", "c"}
    /\ last_call' = [op |-> "deep_merge_chain", arg |-> args,
                     ret |-> [left |-> deep_merge(deep_merge(args.a, args.b), args.c),
                              right |-> deep_merge(args.a, deep_merge(args.b, args.c))]]
    /\ UNCHANGED callVars
    /\ UNCHANGED exceptCall

\* ------------------------------------------------- policy_versions registry
ActiveIds(pv) == {i \in DOMAIN pv : pv[i].is_active}

IdleTx == [pc |-> "idle", policy_id |-> NoRow, cand |-> {},
           off |-> {}, on |-> {}, before |-> {}, others |-> {}]

\* the targets of the set_active_policy calls the other workers have open
OpenTargets(w) == {sap[v].policy_id : v \in {x \in Workers \ {w} : sap[x].pc # "idle"}}

\* rows written (hence row-locked) by the transactions of the other workers
LockedByOthers(w) == UNION {sap[v].off \cup sap[v].on : v \in Workers \ {w}}

AllIdle == \A w \in Workers : sap[w].pc = "idle"

\* the table with a transaction's writes applied (what its commit publishes)
ApplyWrites(pv, tx) ==
    [i \in DOMAIN pv |->
        IF i \in tx.on THEN [pv[i] EXCEPT !.is_active = TRUE]
        ELSE IF i \in tx.off THEN [pv[i] EXCEPT !.is_active = FALSE]
        ELSE pv[i]]

\* INSERT INTO policy_versions (..., is_active) RETURNING id; commit
insert_policy_version(is_active) ==
    /\ Len(policy_versions) < MaxPolicies
    /\ policy_versions' = Append(policy_versions, [is_active |-> is_active])
    /\ last_call' = [op |-> "insert_policy_version",
                     arg |-> Len(policy_versions) + 1,
                     ret |-> {}]
    /\ UNCHANGED <<sap, last_read>>
    /\ UNCHANGED exceptPolicy

\* faulty variant of sap_deactivate: the connection in autocommit mode,
\* so the first UPDATE is visible to every reader at once
sap_deactivate_autocommit(w, policy_id) ==
    /\ sap[w].pc = "idle"
    /\ policy_versions' =
          [i \in DOMAIN policy_versions |->
              [policy_versions[i] EXCEPT !.is_active = FALSE]]
    /\ sap' = [sap EXCEPT ![w] = [IdleTx EXCEPT !.pc = "deactivated",
                                                !.policy_id = policy_id,
                                                !.before = ActiveIds(policy_versions),
                                                !.others = OpenTargets(w)]]
    /\ UNCHANGED <<last_read, last_call>>
    /\ UNCHANGED exceptPolicy

\* set_active_policy, first statement:
\*   UPDATE policy_versions SET is_active = FALSE WHERE is_active = TRUE
\* The statement's snapshot is the committed table; a candidate row written by
\* another open transaction makes the statement wait for that transaction.
sap_deactivate(w, policy_id) ==
    /\ sap[w].pc = "idle"
    /\ LET cand == ActiveIds(policy_versions) IN
       sap' = [sap EXCEPT ![w] =
                 IF cand \cap LockedByOthers(w) = {}
                 THEN [IdleTx EXCEPT !.pc = "deactivated", !.policy_id = policy_id,
                                     !.off = cand, !.before = cand,
                                     !.others = OpenTargets(w)]
                 ELSE [IdleTx EXCEPT !.pc = "deactivate_wait", !.policy_id = policy_id,
                                     !.cand = cand, !.before = cand,
                                     !.others = OpenTargets(w)]]
    /\ UNCHANGED <<policy_versions, last_read, last_call>>
    /\ UNCHANGED exceptPolicy

\* the waiting first statement resumes once the rows are unlocked: READ COMMITTED
\* re-evaluates WHERE is_active = TRUE on the newest committed version of each
\* candidate row, and never looks at rows that were not in its snapshot
sap_deactivate_resume(w) ==
    /\ sap[w].pc = "deactivate_wait"
    /\ sap[w].cand \cap LockedByOthers(w) = {}
    /\ sap' = [sap EXCEPT ![w].pc = "deactivated",
                          ![w].off = sap[w].cand \cap ActiveIds(policy_versions),
                          ![w].cand = {}]
    /\ UNCHANGED <<policy_versions, last_read, last_call>>
    /\ UNCHANGED exceptPolicy

\* set_active_policy, second statement:
\*   UPDATE policy_versions SET is_active = TRUE WHERE id = policy_id
\* (no row matches an id that does not exist; a row locked by another open
\* transaction makes the statement wait)
sap_activate(w) ==
    /\ sap[w].pc = "deactivated"
    /\ sap[w].policy_id \notin LockedByOthers(w)
    /\ sap' = [sap EXCEPT ![w].pc = "activated",
                          ![w].on = {sap[w].policy_id} \cap DOMAIN policy_versions]
    /\ UNCHANGED <<policy_versions, last_read, last_call>>
    /\ UNCHANGED exceptPolicy

\* set_active_policy: conn.commit()
sap_commit(w) ==
    /\ sap[w].pc = "activated"
    /\ policy_versions' = ApplyWrites(policy_versions, sap[w])
    /\ sap' = [sap EXCEPT ![w] = IdleTx]
    /\ last_call' = [op |-> "set_active_policy", arg |-> sap[w].policy_id,
                     ret |-> {}, before |-> sap[w].before, others |-> sap[w].others]
    /\ UNCHANGED last_read
    /\ UNCHANGED exceptPolicy

\* the row the query of get_active_policy_version returns: the newest active
\* row (named by its id), or None
ActivePolicyVersion ==
    IF ActiveIds(policy_versions) = {} THEN NoRow ELSE Max(ActiveIds(policy_versions))

\* SELECT * FROM policy_versions WHERE is_active = TRUE
\*   ORDER BY created_at DESC LIMIT 1
\* One statement: it reads the committed table.  seen is the set of rows the
\* WHERE clause matched, ret the row returned; inflight records the
\* set_active_policy calls that were open at the time of the read.
get_active_policy_version ==
    /\ LET act == ActiveIds(policy_versions) IN
       last_read' = [ret |-> ActivePolicyVersion,
                     seen |-> act,
                     inflight |-> {[before |-> sap[w].before,
                                    policy_id |-> sap[w].policy_id] :
                                      w \in {v \in Workers : sap[v].pc # "idle"}}]
    /\ UNCHANGED <<policy_versions, sap, last_call>>
    /\ UNCHANGED exceptPolicy


NoRead == [ret |-> NoRow, seen |-> {}, inflight |-> {}]

\* ------------------------------------------------------------- proposals
MaxProposals == 2

\* the proposal_status enum
ProposalStatuses == {"pending", "in_experiment", "accepted", "rejected"}
Reasons == {"r1", "r2"}
FinalPolicyVersions == {1}
FinalSelfPromptIds == {1}

\* insert_proposal names no status column: the row takes the column default,
\* which get_pending_proposals (WHERE status = 'pending') reads back
DefaultProposalStatus == "pending"

\* faulty variant of Coalesce: the column is set to the argument, NULL or not
Coalesce_overwrite(arg, column, null) == arg

\* COALESCE(%s, column): the argument unless it is None / NULL
Coalesce(arg, column, null) == IF arg # null THEN arg ELSE column

\* INSERT INTO proposals (...) RETURNING id; commit.  status takes the column
\* default 'pending', the final_* columns are NULL.
insert_proposal(reason) ==
    /\ Len(proposals) < MaxProposals
    /\ proposals' = Append(proposals,
          [status |-> DefaultProposalStatus, final_policy_version |-> NoRow,
           final_self_prompt_id |-> NoRow, reason |-> reason])
    /\ last_call' = [op |-> "insert_proposal", arg |-> Len(proposals) + 1, ret |-> {}]
    /\ UNCHANGED exceptProposals

\* UPDATE proposals SET status = %s, final_* = COALESCE(%s, final_*),
\*   reason = COALESCE(%s, reason) WHERE id = %s; commit
update_proposal_status(proposal_id, status, final_policy_version, final_self_prompt_id, reason) ==
    /\ proposals' =
          [i \in DOMAIN proposals |->
              IF i = proposal_id
              THEN [status |-> status,
                    final_policy_version |->
                        Coalesce(final_policy_version,
                                 proposals[i].final_policy_version, NoRow),
                    final_self_prompt_id |->
                        Coalesce(final_self_prompt_id,
                                 proposals[i].final_self_prompt_id, NoRow),
                    reason |-> Coalesce(reason, proposals[i].reason, None)]
              ELSE proposals[i]]
    /\ last_call' = [op |-> "update_proposal_status", arg |-> proposal_id, ret |-> {},
                     status |-> status, final_policy_version |-> final_policy_version,
                     final_self_prompt_id |-> final_self_prompt_id, reason |-> reason]
    /\ UNCHANGED exceptProposals

\* UPDATE proposals SET status = 'in_experiment' WHERE id = %s; commit
mark_proposal_in_experiment(proposal_id) ==
    /\ proposals' =
          [i \in DOMAIN proposals |->
              IF i = proposal_id
              THEN [proposals[i] EXCEPT !.status = "in_experiment"]
              ELSE proposals[i]]
    /\ last_call' = [op |-> "mark_proposal_in_experiment", arg |-> proposal_id,
                     ret |-> {}]
    /\ UNCHANGED exceptProposals

\* SELECT * FROM proposals WHERE status = 'pending' ORDER BY created_at ASC LIMIT %s
PendingProposals(limit) ==
    LET pend == {i \in DOMAIN proposals : proposals[i].status = "pending"} IN
    {i \in pend : Cardinality({j \in pend : j < i}) < limit}

get_pending_proposals(limit) ==
    /\ last_call' = [op |-> "get_pending_proposals", arg |-> limit,
                     ret |-> PendingProposals(limit)]
    /\ UNCHANGED proposals
    /\ UNCHANGED exceptProposals

\* ----------------------------------------------------------- experiments
ExperimentIds == {1, 2}
MaxRuns == 3

\* the experiment_status enum; a run's status column holds pending, running or
\* completed
ExperimentStatuses == {"pending", "running", "completed", "failed"}
OpenStatuses == {"pending", "running"}
\* finalize_experiment's documented status arguments
FinalStatuses == {"completed", "failed"}
ResultSummaries == {"s1", "s2"}
RunIndexes == {0}
\* (score, safety_ok, metrics) triples a run can report
NoResult == [score |-> NoRow, safety_ok |-> None, metrics |-> None]
RunResults == {[score |-> 1, safety_ok |-> "true", metrics |-> "m1"],
               [score |-> 2, safety_ok |-> "false", metrics |-> "m2"]}

\* create_experiment and create_experiment_run name no status column: the rows
\* take the column default, which get_experiments_ready_to_finalize and
\* get_pending_experiment_runs (status = 'pending') read back
DefaultExperimentStatus == "pending"
DefaultRunStatus == "pending"

RunsOf(e) == {r \in DOMAIN experiment_runs : experiment_runs[r].experiment_id = e}

\* INSERT INTO experiments (...) RETURNING id; commit.  status takes the column
\* default 'pending', result_summary is NULL.
create_experiment ==
    /\ Len(experiments) + 1 \in ExperimentIds
    /\ experiments' = Append(experiments,
                             [status |-> DefaultExperimentStatus,
                              result_summary |-> None])
    /\ last_call' = [op |-> "create_experiment", arg |-> Len(experiments) + 1,
                     ret |-> {}]
    /\ UNCHANGED experiment_runs
    /\ UNCHANGED exceptExperiments

\* INSERT INTO experiment_runs (experiment_id, run_index, candidate_policy_id)
\*   RETURNING id; commit.  status takes the column default 'pending'.
create_experiment_run(experiment_id, run_index) ==
    /\ Len(experiment_runs) < MaxRuns
    /\ experiment_id \in DOMAIN experiments
    /\ experiment_runs' = Append(experiment_runs,
          [experiment_id |-> experiment_id, run_index |-> run_index,
           status |-> DefaultRunStatus, result |-> NoResult])
    /\ last_call' = [op |-> "create_experiment_run",
                     arg |-> Len(experiment_runs) + 1, ret |-> {}]
    /\ UNCHANGED experiments
    /\ UNCHANGED exceptExperiments

\* SELECT * FROM experiment_runs WHERE status = 'pending'
\*   ORDER BY created_at ASC LIMIT %s
PendingExperimentRuns(limit) ==
    LET pend == {r \in DOMAIN experiment_runs : experiment_runs[r].status = "pending"} IN
    {r \in pend : Cardinality({q \in pend : q < r}) < limit}

get_pending_experiment_runs(limit) ==
    /\ last_call' = [op |-> "get_pending_experiment_runs", arg |-> limit,
                     ret |-> PendingExperimentRuns(limit)]
    /\ UNCHANGED <<experiments, experiment_runs>>
    /\ UNCHANGED exceptExperiments

\* faulty variant of update_experiment_run_result: the UPDATE without
\* status = 'completed' in its SET list
update_experiment_run_result_keeps_status(run_id, result) ==
    /\ experiment_runs' =
          [r \in DOMAIN experiment_runs |->
              IF r = run_id
              THEN [experiment_runs[r] EXCEPT !.result = result]
              ELSE experiment_runs[r]]
    /\ last_call' = [op |-> "update_experiment_run_result", arg |-> run_id, ret |-> {}]
    /\ UNCHANGED experiments
    /\ UNCHANGED exceptExperiments

\* faulty variant of update_experiment_run_result: the UPDATE without its
\* WHERE id = %s
update_experiment_run_result_all_rows(run_id, result) ==
    /\ experiment_runs' =
          [r \in DOMAIN experiment_runs |->
              [experiment_runs[r] EXCEPT !.status = "completed", !.result = result]]
    /\ last_call' = [op |-> "update_experiment_run_result", arg |-> run_id, ret |-> {}]
    /\ UNCHANGED experiments
    /\ UNCHANGED exceptExperiments

\* UPDATE experiment_runs SET status = 'completed', score = %s, safety_ok = %s,
\*   metrics = %s WHERE id = %s; commit
update_experiment_run_result(run_id, result) ==
    /\ experiment_runs' =
          [r \in DOMAIN experiment_runs |->
              IF r = run_id
              THEN [experiment_runs[r] EXCEPT !.status = "completed",
                                              !.result = result]
              ELSE experiment_runs[r]]
    /\ last_call' = [op |-> "update_experiment_run_result", arg |-> run_id, ret |-> {}]
    /\ UNCHANGED experiments
    /\ UNCHANGED exceptExperiments

\* faulty variant of ReadyToFinalize: the subquery testing for a completed run
\* in place of a pending or running one
ReadyToFinalize_exists_completed ==
    {e \in DOMAIN experiments :
        /\ experiments[e].status \in OpenStatuses
        /\ \E r \in DOMAIN experiment_runs :
              /\ experiment_runs[r].experiment_id = e
              /\ experiment_runs[r].status = "completed"}

\* faulty variant of ReadyToFinalize: the query without its condition on the
\* experiment's status
ReadyToFinalize_any_status ==
    {e \in DOMAIN experiments :
        ~ \E r \in DOMAIN experiment_runs :
              /\ experiment_runs[r].experiment_id = e
              /\ experiment_runs[r].status \in OpenStatuses}

\* SELECT e.* FROM experiments e WHERE e.status IN ('pending', 'running')
\*   AND NOT EXISTS (SELECT 1 FROM experiment_runs r
\*                   WHERE r.experiment_id = e.id
\*                     AND r.status IN ('pending', 'running'))
ReadyToFinalize ==
    {e \in DOMAIN experiments :
        /\ experiments[e].status \in OpenStatuses
        /\ ~ \E r \in DOMAIN experiment_runs :
              /\ experiment_runs[r].experiment_id = e
              /\ experiment_runs[r].status \in OpenStatuses}

get_experiments_ready_to_finalize ==
    /\ last_call' = [op |-> "get_experiments_ready_to_finalize", arg |-> NoRow,
                     ret |-> ReadyToFinalize]
    /\ UNCHANGED <<experiments, experiment_runs>>
    /\ UNCHANGED exceptExperiments

\* UPDATE experiments SET status = %s, result_summary = %s WHERE id = %s; commit
finalize_experiment(experiment_id, status, result_summary) ==
    /\ experiments' =
          [e \in DOMAIN experiments |->
              IF e = experiment_id
              THEN [status |-> status, result_summary |-> result_summary]
              ELSE experiments[e]]
    /\ last_call' = [op |-> "finalize_experiment", arg |-> experiment_id, ret |-> {}]
    /\ UNCHANGED experiment_runs
    /\ UNCHANGED exceptExperiments

\* ---------------------------------------------- preference inference
MaxTraceLen == 3

\* user_feedback documents: a tag with a thumb, the two safety flags, nothing
Feedback(tag, thumb) == Dict([tag |-> Scalar(tag), thumbs_up |-> Scalar(thumb = "up"), thumbs_down |-> Scalar(thumb = "down")])

Feedbacks ==
    {Feedback("too_blunt", "down"), Feedback("too_soft", "down"),
     Feedback("direct_helpful", "up"), Feedback("kind_helpful", "up"),
     Feedback("too_long", "down"), Feedback("too_short", "down"),
     Feedback("just_right_detail", "up"), Feedback("too_blunt", "up"),
     Dict([flag_unsafe_output |-> Scalar(TRUE)]),
     Dict([complained_too_cautious |-> Scalar(TRUE)]),
     Dict([tag |-> Scalar("too_long"), thumbs_down |-> Scalar(TRUE),
           flag_unsafe_output |-> Scalar(TRUE),
           complained_too_cautious |-> Scalar(TRUE)]),
     EmptyDict}

\* the trace lists fetch_user_traces can return (only user_feedback is read)
TraceLists == UNION {[1..n -> Feedbacks] : n \in 0..MaxTraceLen}

\* fb.get(k) used as a condition
Truthy(fb, k) == Get(fb, k, Scalar(FALSE)) = Scalar(TRUE)

\* fb.get("tag") == name
TagIs(fb, name) == Get(fb, "tag", Scalar(None)) = Scalar(name)

\* A Counter is the sequence of its entries in the order the labels were first
\* counted (a dict keeps insertion order).  votes[label] += w:
Count(votes, label, w) ==
    IF \E i \in DOMAIN votes : votes[i].label = label
    THEN [i \in DOMAIN votes |->
            IF votes[i].label = label
            THEN [label |-> label, n |-> votes[i].n + w]
            ELSE votes[i]]
    ELSE Append(votes, [label |-> label, n |-> w])

\* votes.most_common(1)[0][0]: heapq.nlargest(1, items, key=count), which is
\* max(): the first entry, in insertion order, with the highest count
MostCommon(votes) ==
    votes[CHOOSE i \in DOMAIN votes :
             /\ \A j \in DOMAIN votes : votes[j].n <= votes[i].n
             /\ \A j \in DOMAIN votes : j < i => votes[j].n < votes[i].n].label

\* the four tone rules applied to one trace's feedback, in the code's order
ToneVotes(votes, fb) ==
    LET v1 == IF TagIs(fb, "too_blunt") /\ Truthy(fb, "thumbs_down")
              THEN Count(votes, "gentle", 2) ELSE votes
        v2 == IF TagIs(fb, "too_soft") /\ Truthy(fb, "thumbs_down")
              THEN Count(v1, "direct", 2) ELSE v1
        v3 == IF Truthy(fb, "thumbs_up") /\ TagIs(fb, "direct_helpful")
              THEN Count(v2, "direct", 3) ELSE v2
    IN IF Truthy(fb, "thumbs_up") /\ TagIs(fb, "kind_helpful")
       THEN Count(v3, "gentle", 3) ELSE v3

\* the three detail rules
DetailVotes(votes, fb) ==
    LET v1 == IF TagIs(fb, "too_long") /\ Truthy(fb, "thumbs_down")
              THEN Count(votes, "concise", 3) ELSE votes
        v2 == IF TagIs(fb, "too_short") /\ Truthy(fb, "thumbs_down")
              THEN Count(v1, "detailed", 3) ELSE v1
    IN IF Truthy(fb, "thumbs_up") /\ TagIs(fb, "just_right_detail")
       THEN Count(v2, "balanced", 2) ELSE v2

\* the two safety rules
SafetyVotes(votes, fb) ==
    LET v1 == IF Truthy(fb, "flag_unsafe_output")
              THEN Count(votes, "strict", 3) ELSE votes
    IN IF Truthy(fb, "complained_too_cautious")
       THEN Count(v1, "relaxed", 2) ELSE v1

\* for t in traces: the three Counters after the first i traces
RECURSIVE VotesAfter(_, _)
VotesAfter(trace_list, i) ==
    IF i = 0 THEN [tone |-> <<>>, detail |-> <<>>, safety |-> <<>>]
    ELSE LET before == VotesAfter(trace_list, i - 1)
             fb == trace_list[i] IN
         [tone |-> ToneVotes(before.tone, fb),
          detail |-> DetailVotes(before.detail, fb),
          safety |-> SafetyVotes(before.safety, fb)]

\* what a call gives when it raises instead of returning
Raised(error) == [raised |-> error]
IsRaised(x) == "raised" \in DOMAIN x

\* infer_preferences_from_traces: fb.get on a user_feedback that is not a dict
\* raises AttributeError; otherwise prefs holds, for each Counter that is not
\* empty, its most common label ("balanced" emitted as "medium")
infer_preferences_from_traces(trace_list) ==
    IF \E i \in DOMAIN trace_list : ~ IsDict(trace_list[i])
    THEN Raised("AttributeError")
    ELSE LET votes == VotesAfter(trace_list, Len(trace_list))
             p0 == EmptyDict
             p1 == IF votes.tone # <<>>
                   THEN Put(p0, "tone", Scalar(MostCommon(votes.tone))) ELSE p0
             detail == IF votes.detail # <<>> THEN MostCommon(votes.detail) ELSE None
             p2 == IF votes.detail # <<>>
                   THEN Put(p1, "detail_level",
                            Scalar(IF detail = "balanced" THEN "medium" ELSE detail))
                   ELSE p1
         IN IF votes.safety # <<>>
            THEN Put(p2, "safety_bias", Scalar(MostCommon(votes.safety))) ELSE p2

\* routing_override.setdefault(outer, {})[key] = x
SetDefaultPut(ro, outer, key, x) == Put(ro, outer, Put(Get(ro, outer, EmptyDict), key, x))

\* faulty variant of build_user_policy_overlay_from_prefs: strict sets
\* extra_checks but not min_sources
build_user_policy_overlay_from_prefs_no_min_sources(prefs) ==
    LET tone == Get(prefs, "tone", Scalar(None))
        detail == Get(prefs, "detail_level", Scalar(None))
        safety_bias == Get(prefs, "safety_bias", Scalar(None))
        r1 == IF tone = Scalar("direct")
              THEN SetDefaultPut(EmptyDict, "style", "directness", Scalar("high"))
              ELSE IF tone = Scalar("gentle")
              THEN SetDefaultPut(EmptyDict, "style", "directness", Scalar("low"))
              ELSE EmptyDict
        r2 == IF detail = Scalar("concise")
              THEN SetDefaultPut(r1, "style", "max_tokens_per_reply", Scalar(256))
              ELSE IF detail = Scalar("detailed")
              THEN SetDefaultPut(r1, "style", "max_tokens_per_reply", Scalar(1024))
              ELSE r1
    IN IF safety_bias = Scalar("strict")
       THEN SetDefaultPut(r2, "safety", "extra_checks", Scalar(TRUE))
       ELSE IF safety_bias = Scalar("relaxed")
       THEN SetDefaultPut(r2, "safety", "extra_checks", Scalar(FALSE))
       ELSE r2

\* build_user_policy_overlay_from_prefs: the if/elif chains on prefs.get("tone"),
\* prefs.get("detail_level") and prefs.get("safety_bias"), in that order
build_user_policy_overlay_from_prefs(prefs) ==
    LET tone == Get(prefs, "tone", Scalar(None))
        detail == Get(prefs, "detail_level", Scalar(None))
        safety_bias == Get(prefs, "safety_bias", Scalar(None))
        r1 == IF tone = Scalar("direct")
              THEN SetDefaultPut(EmptyDict, "style", "directness", Scalar("high"))
              ELSE IF tone = Scalar("gentle")
              THEN SetDefaultPut(EmptyDict, "style", "directness", Scalar("low"))
              ELSE EmptyDict
        r2 == IF detail = Scalar("concise")
              THEN SetDefaultPut(r1, "style", "max_tokens_per_reply", Scalar(256))
              ELSE IF detail = Scalar("detailed")
              THEN SetDefaultPut(r1, "style", "max_tokens_per_reply", Scalar(1024))
              ELSE r1
        r3 == SetDefaultPut(r2, "safety", "extra_checks", Scalar(TRUE))
    IN IF safety_bias = Scalar("strict")
       THEN Put(r3, "safety", Put(r3.d["safety"], "min_sources", Scalar(3)))
       ELSE IF safety_bias = Scalar("relaxed")
       THEN SetDefaultPut(r2, "safety", "extra_checks", Scalar(FALSE))
       ELSE r2

\* the preference sets the table is examined on: each dimension absent, one of
\* its labels, or a value the table does not know
PrefValues(dim) ==
    IF dim = "tone" THEN {"direct", "gentle", "neutral"}
    ELSE IF dim = "detail_level" THEN {"concise", "detailed", "medium", "verbose"}
    ELSE {"strict", "relaxed", "default"}

PrefDims == {"tone", "detail_level", "safety_bias"}

PrefSets ==
    {Dict(f) : f \in UNION {{g \in [dims -> {Scalar(x) : x \in UNION {PrefValues(k) : k \in PrefDims}}] :
                                \A k \in dims : g[k].s \in PrefValues(k)} : dims \in SUBSET PrefDims}}

\* infer_preferences_from_traces on a list of traces
infer_preferences_from_traces_call ==
    /\ last_call.op = "none"
    /\ DOMAIN args = {"traces"}
    /\ last_call' = [op |-> "infer_preferences_from_traces", arg |-> args.traces,
                     ret |-> infer_preferences_from_traces(args.traces)]
    /\ UNCHANGED callVars
    /\ UNCHANGED exceptCall

\* build_user_policy_overlay_from_prefs on a preference set: one given, or the
\* one just inferred
build_user_policy_overlay_from_prefs_call ==
    /\ \E prefs \in (IF last_call.op = "none" /\ DOMAIN args = {"prefs"}
                     THEN {args.prefs}
                     ELSE IF last_call.op = "infer_preferences_from_traces"
                             /\ IsDict(last_call.ret)
                     THEN {last_call.ret} ELSE {}) :
          last_call' = [op |-> "build_user_policy_overlay_from_prefs", arg |-> prefs,
                        ret |-> build_user_policy_overlay_from_prefs(prefs)]
    /\ UNCHANGED callVars
    /\ UNCHANGED exceptCall

\* ---------------------------------------------------------- user_policies
MaxUpserts == 3

Users == {"u1", "u2"}
BasePolicyArgs == {1, 2}
RoutingPayloads == {Dict([style |-> Dict([directness |-> Scalar("high")])]),
                    Dict([style |-> Dict([max_tokens_per_reply |-> Scalar(256)]),
                          model |-> Scalar("fast")])}
ToolUseArgs == {Scalar(None), Dict([search |-> Scalar("off")])}

\* tool_use_override or {}
OrEmpty(x) == IF Falsy(x) THEN EmptyDict ELSE x

\* the INSERT of upsert_user_policy_overlay names no is_active column: the row
\* takes the column default, which the lookups (is_active = TRUE) read back
DefaultOverlayIsActive == TRUE

IdleUpsert == [pc |-> "idle", user_id |-> None, base_policy_id |-> NoRow,
               routing_override |-> None, tool_use_override |-> None,
               up_id |-> NoRow, now |-> 0, kind |-> None]

ActiveOverlays(user_id) ==
    {i \in DOMAIN user_policies :
        user_policies[i].user_id = user_id /\ user_policies[i].is_active}

\* rows updated (hence row-locked) by the open transactions of the other workers
UpLockedByOthers(w) ==
    {ups[v].up_id : v \in {x \in Workers \ {w} :
                              ups[x].pc = "written" /\ ups[x].kind = "update"}}

UpsertsIdle == \A w \in Workers : ups[w].pc = "idle"

\* faulty variant of FindActiveOverlay: the lookup testing is_active = FALSE,
\* so it never finds the user's active overlay
FindActiveOverlay_inactive(user_id) ==
    LET rows == {i \in DOMAIN user_policies :
                    user_policies[i].user_id = user_id
                    /\ ~ user_policies[i].is_active} IN
    IF rows = {} THEN NoRow
    ELSE CHOOSE i \in rows :
            \A j \in rows : user_policies[j].updated_at <= user_policies[i].updated_at

\* SELECT id FROM user_policies WHERE user_id = %s AND is_active = TRUE
\*   ORDER BY updated_at DESC LIMIT 1          (fetchone(): the id, or None)
FindActiveOverlay(user_id) ==
    LET rows == ActiveOverlays(user_id) IN
    IF rows = {} THEN NoRow
    ELSE CHOOSE i \in rows :
            \A j \in rows : user_policies[j].updated_at <= user_policies[i].updated_at

\* upsert_user_policy_overlay: tool_use_override = tool_use_override or {}, then
\* the SELECT that looks for the user's active overlay (a plain read of the
\* committed table: it takes no lock).  The transaction starts here, so NOW()
\* is this moment for all its statements.
upsert_select(w, user_id, base_policy_id, routing_override, tool_use_override) ==
    /\ ups[w].pc = "idle"
    /\ clock < MaxUpserts
    /\ clock' = clock + 1
    /\ ups' = [ups EXCEPT ![w] =
                 [pc |-> "selected", user_id |-> user_id,
                  base_policy_id |-> base_policy_id,
                  routing_override |-> routing_override,
                  tool_use_override |-> OrEmpty(tool_use_override),
                  up_id |-> FindActiveOverlay(user_id),
                  now |-> clock + 1, kind |-> None]]
    /\ UNCHANGED <<user_policies, up_seq, upsert_log, last_call>>
    /\ UNCHANGED exceptOverlay

\* if row: UPDATE user_policies SET ... WHERE id = up_id  (waits while another
\*         open transaction holds the row)
\* else:   INSERT INTO user_policies (...) RETURNING id   (the id comes from the
\*         table's sequence)
upsert_write(w) ==
    /\ ups[w].pc = "selected"
    /\ IF ups[w].up_id # NoRow
       THEN /\ ups[w].up_id \notin UpLockedByOthers(w)
            /\ ups' = [ups EXCEPT ![w].pc = "written", ![w].kind = "update"]
            /\ UNCHANGED up_seq
       ELSE /\ up_seq' = up_seq + 1
            /\ ups' = [ups EXCEPT ![w].pc = "written", ![w].kind = "insert",
                                  ![w].up_id = up_seq + 1]
    /\ UNCHANGED <<user_policies, clock, upsert_log, last_call>>
    /\ UNCHANGED exceptOverlay

\* conn.commit(); return up_id.  An inserted row takes the column defaults of
\* is_active and updated_at (NOW(), as the UPDATE branch sets it).
upsert_commit(w) ==
    /\ ups[w].pc = "written"
    /\ LET tx == ups[w] IN
       /\ user_policies' =
             IF tx.kind = "update"
             THEN [user_policies EXCEPT ![tx.up_id] =
                      [@ EXCEPT !.routing_override = tx.routing_override,
                                !.tool_use_override = tx.tool_use_override,
                                !.base_policy_id = tx.base_policy_id,
                                !.updated_at = tx.now]]
             ELSE user_policies @@
                  (tx.up_id :> [user_id |-> tx.user_id,
                                base_policy_id |-> tx.base_policy_id,
                                routing_override |-> tx.routing_override,
                                tool_use_override |-> tx.tool_use_override,
                                is_active |-> DefaultOverlayIsActive,
                                updated_at |-> tx.now])
       /\ upsert_log' = [upsert_log EXCEPT ![tx.user_id] =
                            Append(@, [ret |-> tx.up_id,
                                       routing_override |-> tx.routing_override])]
       /\ last_call' = [op |-> "upsert_user_policy_overlay", arg |-> tx.user_id,
                        ret |-> {tx.up_id}]
    /\ ups' = [ups EXCEPT ![w] = IdleUpsert]
    /\ UNCHANGED <<up_seq, clock>>
    /\ UNCHANGED exceptOverlay

\* ------------------------------------------- apply_user_policy_overlay
\* user_id arguments: a known user, None, or the empty string
UserIdArgs == Users \cup {None, ""}

\* base_policy arguments: the empty policy handle_task falls back on, and
\* policy_versions rows (SELECT *) with their routing, tool_use and
\* safety_overrides documents
BasePolicies ==
    {Dict([id |-> Scalar(None), routing |-> EmptyDict, tool_use |-> EmptyDict,
           safety_overrides |-> EmptyDict]),
     Dict([id |-> Scalar("pv1"), label |-> Scalar("v1"),
           routing |-> Dict([style |-> Dict([directness |-> Scalar("low"),
                                             max_tokens_per_reply |-> Scalar(512)]),
                             model |-> Scalar("slow")]),
           tool_use |-> Dict([search |-> Scalar("on")]),
           safety_overrides |-> Dict([extra_checks |-> Scalar(TRUE)])]),
     Dict([id |-> Scalar("pv2"), label |-> Scalar("v2"),
           routing |-> Dict([style |-> Scalar("plain")]),
           tool_use |-> EmptyDict,
           safety_overrides |-> Dict([style |-> Dict([directness |-> Scalar("low")])])])}

\* faulty variant of get_active_user_policy_overlay: the lookup without its
\* user_id = %s condition, which returns the newest active overlay of any user
get_active_user_policy_overlay_any_user(user_id) ==
    LET rows == {i \in DOMAIN user_policies : user_policies[i].is_active} IN
    IF rows = {} THEN NoRow
    ELSE CHOOSE i \in rows :
            \A j \in rows : user_policies[j].updated_at <= user_policies[i].updated_at

\* SELECT id, user_id, base_policy_id, routing_override, tool_use_override
\*   FROM user_policies WHERE user_id = %s AND is_active = TRUE
\*   ORDER BY updated_at DESC LIMIT 1        (the row, named by its id, or None)
get_active_user_policy_overlay(user_id) ==
    LET rows == {i \in DOMAIN user_policies :
                    user_policies[i].user_id = user_id /\ user_policies[i].is_active} IN
    IF rows = {} THEN NoRow
    ELSE CHOOSE i \in rows :
            \A j \in rows : user_policies[j].updated_at <= user_policies[i].updated_at

\* faulty variant of apply_user_policy_overlay: the routing override is merged
\* into safety_overrides as well
apply_user_policy_overlay_all_fields(base_policy, user_id) ==
    IF user_id \in {None, ""} THEN base_policy
    ELSE LET overlay == get_active_user_policy_overlay(user_id) IN
         IF overlay = NoRow THEN base_policy
         ELSE LET routing_ov == OrEmpty(user_policies[overlay].routing_override)
                  tool_use_ov == OrEmpty(user_policies[overlay].tool_use_override)
                  routing == deep_merge(Get(base_policy, "routing", EmptyDict), routing_ov)
                  tool_use == deep_merge(Get(base_policy, "tool_use", EmptyDict), tool_use_ov)
                  safety == deep_merge(Get(base_policy, "safety_overrides", EmptyDict),
                                       routing_ov)
              IN Put(Put(Put(base_policy, "routing", routing), "tool_use", tool_use),
                     "safety_overrides", safety)

\* the value apply_user_policy_overlay returns: base_policy itself when the
\* user is not identified or has no active overlay, else a shallow copy of it
\* whose routing and tool_use are merged with the overlay's overrides
apply_user_policy_overlay(base_policy, user_id) ==
    IF user_id \in {None, ""} THEN base_policy
    ELSE LET overlay == get_active_user_policy_overlay(user_id) IN
         IF overlay = NoRow THEN base_policy
         ELSE LET routing_ov == OrEmpty(user_policies[overlay].routing_override)
                  tool_use_ov == OrEmpty(user_policies[overlay].tool_use_override)
                  routing == deep_merge(Get(base_policy, "routing", EmptyDict), routing_ov)
                  tool_use == deep_merge(Get(base_policy, "tool_use", EmptyDict), tool_use_ov)
              IN Put(Put(base_policy, "routing", routing), "tool_use", tool_use)

\* a call of apply_user_policy_overlay, as handle_task makes it
apply_user_policy_overlay_call(base_policy, user_id) ==
    /\ last_call' = [op |-> "apply_user_policy_overlay",
                     arg |-> [base_policy |-> base_policy, user_id |-> user_id],
                     ret |-> apply_user_policy_overlay(base_policy, user_id)]
    /\ UNCHANGED callVars
    /\ UNCHANGED exceptCall

\* ------------------------------------------------ personalization cycle
MaxTraces == 2

\* user_feedback arguments of insert_trace: two tagged feedbacks, a feedback
\* that is a JSON string instead of an object, and None
FeedbackArgs ==
    {Feedback("too_blunt", "down"), Feedback("just_right_detail", "up"),
     Scalar("n/a"), Scalar(None)}

\* the users table (its rows are created outside this code): one user with a
\* NULL profile, one with preferences already stored
InitialUsers ==
    [u \in Users |->
        IF u = "u1" THEN Scalar(None)
        ELSE Dict([preferences |-> Dict([language |-> Scalar("en"),
                                         tone |-> Scalar("direct")])])]

IdleCycle ==
    [pc |-> "idle", min_traces |-> 0, user_ids |-> <<>>, active_policy |-> NoRow,
     i |-> 0, prefs |-> EmptyDict, seen |-> 0, report |-> None]

\* insert_trace: INSERT INTO traces (..., user_feedback, user_id) with
\* json.dumps(user_feedback or {}); the newest trace comes first in the
\* ORDER BY created_at DESC of fetch_user_traces
insert_trace(user_id, user_feedback) ==
    /\ Len(traces[user_id]) < MaxTraces
    /\ traces' = [traces EXCEPT ![user_id] = <<OrEmpty(user_feedback)>> \o @]
    /\ UNCHANGED <<users, cycle, upp, last_call>>
    /\ UNCHANGED exceptCycle

\* faulty variant of get_active_users_with_recent_traces: the query without
\* its HAVING COUNT(*) >= min_traces
get_active_users_with_recent_traces_any_count(min_traces) ==
    {u \in Users : Len(traces[u]) >= 1}

\* SELECT user_id FROM traces WHERE user_id IS NOT NULL AND created_at > ...
\*   GROUP BY user_id HAVING COUNT(*) >= min_traces
\* (every trace of the model lies inside the lookback window)
get_active_users_with_recent_traces(min_traces) ==
    {u \in Users : Len(traces[u]) >= 1 /\ Len(traces[u]) >= min_traces}

\* the orders in which the rows of a query without ORDER BY can come back
RowOrders(S) ==
    {q \in [1..Cardinality(S) -> S] : \A i, j \in 1..Cardinality(S) : q[i] = q[j] => i = j}

\* fetch_user_traces: the user's traces, newest first, user_feedback or {}
fetch_user_traces(user_id) ==
    [i \in DOMAIN traces[user_id] |-> OrEmpty(traces[user_id][i])]

\* prefs.update(pref_patch)
DictUpdate(a, b) ==
    Dict([k \in DOMAIN a.d \cup DOMAIN b.d |-> IF k \in DOMAIN b.d THEN b.d[k] ELSE a.d[k]])

\* the profile with the patch merged into its preferences
\*   profile = row["profile"] or {}; prefs = profile.get("preferences", {})
\*   prefs.update(pref_patch); profile["preferences"] = prefs
PatchedProfile(column, pref_patch) ==
    LET profile == OrEmpty(column)
        prefs == DictUpdate(Get(profile, "preferences", EmptyDict), pref_patch)
    IN Put(profile, "preferences", prefs)

\* update_user_profile_preferences run by itself, start to commit: SELECT profile ... FOR UPDATE; return if
\* there is no row; profile = row["profile"] or {}; preferences updated with
\* the patch; UPDATE users SET profile; commit.  (The caller's own position is
\* the caller's to move.)
update_user_profile_preferences(user_id, pref_patch) ==
    /\ users' =
          IF user_id \notin DOMAIN users THEN users
          ELSE [users EXCEPT ![user_id] = PatchedProfile(users[user_id], pref_patch)]
    /\ last_call' = [op |-> "update_user_profile_preferences", arg |-> user_id, ret |-> {}]
    /\ UNCHANGED <<traces, upp>>
    /\ UNCHANGED exceptCycle

\* ---- update_user_profile_preferences, statement by statement per worker
\* pref_patch arguments, some over different keys and some over the same key
PrefPatches ==
    {Dict([tone |-> Scalar("gentle")]),
     Dict([detail_level |-> Scalar("concise")]),
     Dict([tone |-> Scalar("direct"), safety_bias |-> Scalar("strict")])}

\* user_id arguments: the users of the table and an id without a row
ProfileUserArgs == Users \cup {"u0"}

IdleProfileUpdate ==
    [pc |-> "idle", user_id |-> None, pref_patch |-> EmptyDict, row |-> EmptyDict,
     profile |-> EmptyDict]

\* users rows locked by the open transactions of the other workers
ProfileLockedByOthers(w) ==
    {upp[v].user_id : v \in {x \in Workers \ {w} : upp[x].pc \in {"locked", "written"}}}

\* faulty variant of upp_select_for_update: the SELECT without FOR UPDATE, which
\* neither waits for a lock nor takes one until the UPDATE
upp_select_no_lock(w, user_id, pref_patch) ==
    /\ upp[w].pc = "idle"
    /\ upp' = [upp EXCEPT ![w] =
                 IF user_id \notin DOMAIN users
                 THEN [IdleProfileUpdate EXCEPT !.pc = "returned", !.user_id = user_id,
                                                !.pref_patch = pref_patch]
                 ELSE [IdleProfileUpdate EXCEPT !.pc = "selected", !.user_id = user_id,
                                                !.pref_patch = pref_patch,
                                                !.row = users[user_id]]]
    /\ UNCHANGED <<traces, users, cycle, last_call>>
    /\ UNCHANGED exceptCycle

\* SELECT profile FROM users WHERE id = %s FOR UPDATE: waits while another open
\* transaction holds the row, then reads its newest committed version and
\* locks it; "if not row: return" ends the call without a write
upp_select_for_update(w, user_id, pref_patch) ==
    /\ upp[w].pc = "idle"
    /\ user_id \notin ProfileLockedByOthers(w)
    /\ upp' = [upp EXCEPT ![w] =
                 IF user_id \notin DOMAIN users
                 THEN [IdleProfileUpdate EXCEPT !.pc = "returned", !.user_id = user_id,
                                                !.pref_patch = pref_patch]
                 ELSE [IdleProfileUpdate EXCEPT !.pc = "locked", !.user_id = user_id,
                                                !.pref_patch = pref_patch,
                                                !.row = users[user_id]]]
    /\ UNCHANGED <<traces, users, cycle, last_call>>
    /\ UNCHANGED exceptCycle

\* UPDATE users SET profile = %s::jsonb WHERE id = %s, with the profile computed
\* from the row that was read (the UPDATE waits for a row another open
\* transaction holds)
upp_update(w) ==
    /\ upp[w].pc \in {"locked", "selected"}
    /\ upp[w].user_id \notin ProfileLockedByOthers(w)
    /\ upp' = [upp EXCEPT ![w].pc = "written",
                          ![w].profile = PatchedProfile(upp[w].row, upp[w].pref_patch)]
    /\ UNCHANGED <<traces, users, cycle, last_call>>
    /\ UNCHANGED exceptCycle

\* conn.commit(): the call has returned
upp_commit(w) ==
    /\ upp[w].pc = "written"
    /\ users' = [users EXCEPT ![upp[w].user_id] = upp[w].profile]
    /\ upp' = [upp EXCEPT ![w].pc = "returned"]
    /\ last_call' = [op |-> "update_user_profile_preferences", arg |-> upp[w].user_id,
                     ret |-> {}]
    /\ UNCHANGED <<traces, cycle>>
    /\ UNCHANGED exceptCycle

\* run_user_preference_meta_cycle, step 1: the eligible users; with none,
\* print "no users with enough traces" and return
cycle_select_users(min_traces) ==
    /\ cycle.pc = "idle"
    /\ \E user_ids \in RowOrders(get_active_users_with_recent_traces(min_traces)) :
          cycle' = IF user_ids = <<>>
                   THEN [cycle EXCEPT !.pc = "returned", !.min_traces = min_traces,
                                      !.report = "no users with enough traces"]
                   ELSE [cycle EXCEPT !.pc = "read_policy", !.min_traces = min_traces,
                                      !.user_ids = user_ids]
    /\ UNCHANGED <<traces, users, upp, last_call>>
    /\ UNCHANGED exceptCycle

\* faulty variant of cycle_read_policy: without the "if not active_policy"
\* return
cycle_read_policy_unchecked ==
    /\ cycle.pc = "read_policy"
    /\ cycle' = [cycle EXCEPT !.pc = "infer", !.active_policy = ActivePolicyVersion,
                              !.i = 1]
    /\ UNCHANGED <<traces, users, upp, last_call>>
    /\ UNCHANGED exceptCycle

\* step 2: active_policy = db.get_active_policy_version(); with none, print
\* "no active global policy" and return; else enter the loop
cycle_read_policy ==
    /\ cycle.pc = "read_policy"
    /\ cycle' = IF ActivePolicyVersion = NoRow
                THEN [cycle EXCEPT !.pc = "returned",
                                   !.report = "no active global policy"]
                ELSE [cycle EXCEPT !.pc = "infer", !.active_policy = ActivePolicyVersion,
                                   !.i = 1]
    /\ UNCHANGED <<traces, users, upp, last_call>>
    /\ UNCHANGED exceptCycle

\* loop body, first half: traces = fetch_user_traces(user_id); prefs =
\* infer_preferences_from_traces(traces); an exception leaves the function, as
\* the loop has no handler; "if not prefs: continue"
cycle_infer ==
    /\ cycle.pc = "infer"
    /\ cycle.i <= Len(cycle.user_ids)
    /\ LET prefs == infer_preferences_from_traces(fetch_user_traces(cycle.user_ids[cycle.i])) IN
       cycle' = IF IsRaised(prefs) THEN [cycle EXCEPT !.pc = "raised"]
                ELSE IF prefs = EmptyDict THEN [cycle EXCEPT !.i = @ + 1]
                ELSE [cycle EXCEPT !.pc = "update_profile", !.prefs = prefs]
    /\ UNCHANGED <<traces, users, upp, last_call>>
    /\ UNCHANGED exceptCycle

\* db.update_user_profile_preferences(user_id, prefs); routing_override =
\* build_user_policy_overlay_from_prefs(prefs); "if routing_override:" decides
\* whether the overlay is upserted
cycle_update_profile ==
    /\ cycle.pc = "update_profile"
    /\ update_user_profile_preferences(cycle.user_ids[cycle.i], cycle.prefs)
    /\ cycle' = IF build_user_policy_overlay_from_prefs(cycle.prefs) # EmptyDict
                THEN [cycle EXCEPT !.pc = "upsert",
                                   !.seen = Len(upsert_log[cycle.user_ids[cycle.i]])]
                ELSE [cycle EXCEPT !.pc = "infer", !.i = @ + 1]

\* db.upsert_user_policy_overlay(user_id, active_policy["id"], routing_override,
\* tool_use_override={}): the call starts (its statements are upsert_select,
\* upsert_write and upsert_commit)
cycle_upsert(w) ==
    /\ cycle.pc = "upsert"
    /\ Len(upsert_log[cycle.user_ids[cycle.i]]) = cycle.seen
    /\ upsert_select(w, cycle.user_ids[cycle.i], cycle.active_policy, build_user_policy_overlay_from_prefs(cycle.prefs), EmptyDict)

\* the upsert has returned: next user
cycle_next_user ==
    /\ cycle.pc = "upsert"
    /\ Len(upsert_log[cycle.user_ids[cycle.i]]) > cycle.seen
    /\ cycle' = [cycle EXCEPT !.pc = "infer", !.i = @ + 1]
    /\ UNCHANGED <<traces, users, upp, last_call>>
    /\ UNCHANGED exceptCycle

\* the loop is over: the function returns
cycle_return ==
    /\ cycle.pc = "infer"
    /\ cycle.i > Len(cycle.user_ids)
    /\ cycle' = [cycle EXCEPT !.pc = "returned", !.report = "completed"]
    /\ UNCHANGED <<traces, users, upp, last_call>>
    /\ UNCHANGED exceptCycle

\* ------------------------------------------------------- specifications
InitTables ==
    /\ policy_versions = <<>>
    /\ sap = [w \in Workers |-> IdleTx]
    /\ last_read = NoRead
    /\ proposals = <<>>
    /\ experiments = <<>>
    /\ experiment_runs = <<>>
    /\ user_policies = <<>>
    /\ ups = [w \in Workers |-> IdleUpsert]
    /\ up_seq = 0
    /\ clock = 0
    /\ upsert_log = [u \in Users |-> <<>>]
    /\ traces = [u \in Users |-> <<>>]
    /\ users = InitialUsers
    /\ cycle = IdleCycle
    /\ upp = [w \in Workers |-> IdleProfileUpdate]
    /\ last_call = NoCall

Init == InitTables /\ args = NoArgs

\* deep_merge on every pair of nested mappings over two keys, and on every
\* three mappings over three keys whose key sets are pairwise disjoint
InitMerge ==
    /\ InitTables
    /\ \/ args \in [a : NestedDicts, b : NestedDicts]
       \/ \E own \in [TopKeys -> {"a", "b", "c", "none"}],
             val \in [TopKeys -> MergeScalars \cup FlatDicts] :
               args = [a |-> Part(own, val, "a"), b |-> Part(own, val, "b"),
                       c |-> Part(own, val, "c")]

\* the synthesizer on every list of traces up to MaxTraceLen and the overlay
\* table on every preference set
InitInfer ==
    /\ InitTables
    /\ \/ args \in [traces : TraceLists]
       \/ args \in [prefs : PrefSets]

NextInfer ==
    \/ infer_preferences_from_traces_call
    \/ build_user_policy_overlay_from_prefs_call

SpecInfer == InitInfer /\ [][NextInfer]_vars

\* One personalization cycle over the traces and the policy versions that
\* were written before it started.
NextCycle ==
    \/ \E u \in Users, fb \in FeedbackArgs : cycle.pc = "idle" /\ insert_trace(u, fb)
    \/ \E b \in BOOLEAN :
          cycle.pc = "idle" /\ ActiveIds(policy_versions) = {} /\ insert_policy_version(b)
    \/ \E min_traces \in 1..MaxTraces : cycle_select_users(min_traces)
    \/ cycle_read_policy
    \/ cycle_infer
    \/ cycle_update_profile
    \/ \E w \in Workers : UpsertsIdle /\ cycle_upsert(w)
    \/ \E w \in Workers : upsert_write(w)
    \/ \E w \in Workers : upsert_commit(w)
    \/ cycle_next_user
    \/ cycle_return

SpecCycle == Init /\ [][NextCycle]_vars

\* One update_user_profile_preferences call per worker, all at the same time.
NextProfile ==
    \/ \E w \in Workers, u \in ProfileUserArgs, patch \in PrefPatches :
          upp_select_for_update(w, u, patch)
    \/ \E w \in Workers : upp_update(w)
    \/ \E w \in Workers : upp_commit(w)

SpecProfile == Init /\ [][NextProfile]_vars

NextMerge ==
    \/ deep_merge_call
    \/ deep_merge_chain

SpecMerge == InitMerge /\ [][NextMerge]_vars

\* The registry with its writing calls one after another (a call starts only
\* when no other call is open) and readers at any time.
NextRegistry ==
    \/ \E b \in BOOLEAN : AllIdle /\ insert_policy_version(b)
    \/ \E w \in Workers, p \in PolicyIds : AllIdle /\ sap_deactivate(w, p)
    \/ \E w \in Workers : sap_activate(w)
    \/ \E w \in Workers : sap_commit(w)
    \/ get_active_policy_version

SpecRegistry == Init /\ [][NextRegistry]_vars

\* The registry with set_active_policy calls of several workers interleaved
\* statement by statement.  Versions are inserted inactive and every call names
\* a version that exists, so that only the interleaving of the calls can leave
\* the registry with no active version or with two.
NextRegistryConcurrent ==
    \/ insert_policy_version(FALSE)
    \/ \E w \in Workers, p \in DOMAIN policy_versions : sap_deactivate(w, p)
    \/ \E w \in Workers : sap_deactivate_resume(w)
    \/ \E w \in Workers : sap_activate(w)
    \/ \E w \in Workers : sap_commit(w)

SpecRegistryConcurrent == Init /\ [][NextRegistryConcurrent]_vars

NextProposals ==
    \/ \E r \in Reasons : insert_proposal(r)
    \/ \E p \in DOMAIN proposals, s \in ProposalStatuses,
          fp \in FinalPolicyVersions \cup {NoRow},
          fs \in FinalSelfPromptIds \cup {NoRow},
          r \in Reasons \cup {None} :
            update_proposal_status(p, s, fp, fs, r)
    \/ \E p \in DOMAIN proposals : mark_proposal_in_experiment(p)
    \/ \E l \in 1..MaxProposals : get_pending_proposals(l)

SpecProposals == Init /\ [][NextProposals]_vars

\* Proposals being resolved: update_proposal_status calls with a final status,
\* on proposals inserted before or between them.
ResolveStatuses == {"accepted", "rejected"}

NextProposalUpdates ==
    \/ \E r \in Reasons : insert_proposal(r)
    \/ \E p \in DOMAIN proposals, s \in ResolveStatuses,
          fp \in FinalPolicyVersions \cup {NoRow},
          fs \in FinalSelfPromptIds \cup {NoRow},
          r \in Reasons \cup {None} :
            update_proposal_status(p, s, fp, fs, r)

SpecProposalUpdates == Init /\ [][NextProposalUpdates]_vars

NextExperiments ==
    \/ create_experiment
    \/ \E e \in DOMAIN experiments, i \in RunIndexes : create_experiment_run(e, i)
    \/ \E r \in DOMAIN experiment_runs, res \in RunResults :
          update_experiment_run_result(r, res)
    \/ get_experiments_ready_to_finalize
    \/ \E e \in DOMAIN experiments, s \in FinalStatuses, rs \in ResultSummaries :
          finalize_experiment(e, s, rs)

SpecExperiments == Init /\ [][NextExperiments]_vars

\* the run executor records the result of a run that
\* get_pending_experiment_runs lists
ExecutePendingRun(r) ==
    /\ r \in PendingExperimentRuns(MaxRuns)
    /\ \E res \in {x \in RunResults : x.safety_ok = "true"} :
          update_experiment_run_result(r, res)

\* Experiments with a run executor that takes its runs from
\* get_pending_experiment_runs and an orchestrator that polls
\* get_experiments_ready_to_finalize.
NextExperimentsPolled ==
    \/ create_experiment
    \/ \E e \in DOMAIN experiments, i \in RunIndexes : create_experiment_run(e, i)
    \/ get_pending_experiment_runs(MaxRuns)
    \/ \E r \in DOMAIN experiment_runs : ExecutePendingRun(r)
    \/ get_experiments_ready_to_finalize
    \/ \E e \in DOMAIN experiments, s \in FinalStatuses : finalize_experiment(e, s, "s1")

\* The executor does not leave a pending run unexecuted for ever, and the
\* orchestrator does not stop polling.
FairExecutorAndPoller ==
    /\ \A r \in 1..MaxRuns : WF_vars(ExecutePendingRun(r))
    /\ WF_vars(get_experiments_ready_to_finalize)

SpecExperimentsPolled == Init /\ [][NextExperimentsPolled]_vars /\ FairExecutorAndPoller

\* upsert_user_policy_overlay calls one after another
NextOverlaySequential ==
    \/ \E w \in Workers, u \in Users, b \in BasePolicyArgs,
          ro \in RoutingPayloads, tu \in ToolUseArgs :
            UpsertsIdle /\ upsert_select(w, u, b, ro, tu)
    \/ \E w \in Workers : upsert_write(w)
    \/ \E w \in Workers : upsert_commit(w)

SpecOverlaySequential == Init /\ [][NextOverlaySequential]_vars

\* upsert_user_policy_overlay calls of several workers interleaved statement by
\* statement
NextOverlay ==
    \/ \E w \in Workers, u \in Users, b \in BasePolicyArgs,
          ro \in RoutingPayloads, tu \in ToolUseArgs :
            upsert_select(w, u, b, ro, tu)
    \/ \E w \in Workers : upsert_write(w)
    \/ \E w \in Workers : upsert_commit(w)

SpecOverlay == Init /\ [][NextOverlay]_vars

\* Policy resolution: overlays written by calls one after another, and
\* apply_user_policy_overlay between them.
NextCompose ==
    \/ \E w \in Workers, u \in Users, ro \in RoutingPayloads, tu \in ToolUseArgs :
          UpsertsIdle /\ upsert_select(w, u, 1, ro, tu)
    \/ \E w \in Workers : upsert_write(w)
    \/ \E w \in Workers : upsert_commit(w)
    \/ \E bp \in BasePolicies, u \in UserIdArgs :
          UpsertsIdle /\ apply_user_policy_overlay_call(bp, u)

SpecCompose == Init /\ [][NextCompose]_vars

\* ----------------------------------------------------------------- claims

\* C1: between completed insert_policy_version and set_active_policy calls at
\* most one policy_versions row has is_active = TRUE.
C1_AtMostOneActivePolicy ==
    AllIdle => Cardinality(ActiveIds(policy_versions)) <= 1

\* C2: after each completed set_active_policy call, whatever its policy_id,
\* exactly one policy version is active (stated here for the calls made while a
\* version was active, where "never zero" is at stake).
C2_ExactlyOneActiveAfterSetActive ==
    (AllIdle /\ last_call.op = "set_active_policy" /\ last_call.before # {})
        => Cardinality(ActiveIds(policy_versions)) = 1

\* C3: a get_active_policy_version that runs while a set_active_policy call is
\* open (after its deactivate-all step, before its commit) observes the state
\* before the call: the same active rows, so not two when there was at most one,
\* and not zero when one was active; it returns one of the rows active before.
C3_ReaderSeesStateBeforeCall ==
    \A c \in last_read.inflight :
        /\ last_read.seen = c.before
        /\ Cardinality(c.before) <= 1 => Cardinality(last_read.seen) <= 1
        /\ c.before # {} => last_read.ret \in c.before

\* a read taken inside a call that has deactivated one row and activated another
C3_Witness ==
    \E w \in Workers :
        /\ sap[w].pc = "activated"
        /\ sap[w].off # {}
        /\ sap[w].on # {}
        /\ sap[w].on \cap sap[w].off = {}
        /\ last_read.inflight = {[before |-> sap[w].before,
                                  policy_id |-> sap[w].policy_id]}
        /\ last_read.ret \in sap[w].before

StatusRank(s) ==
    CASE s = "pending" -> 0
      [] s = "in_experiment" -> 1
      [] s \in {"accepted", "rejected"} -> 2

\* C4: a proposal's status never regresses along
\* pending -> in_experiment -> {accepted, rejected}.
C4_ProposalStatusNeverRegresses ==
    [][\A p \in DOMAIN proposals :
          StatusRank(proposals'[p].status) >= StatusRank(proposals[p].status)]_vars

\* C5: an experiment whose status is completed or failed owns no run whose
\* status is pending or running.
C5_TerminalExperimentHasNoOpenRun ==
    \A e \in DOMAIN experiments :
        experiments[e].status \in FinalStatuses
            => \A r \in RunsOf(e) : experiment_runs[r].status \notin OpenStatuses

\* C6: get_experiments_ready_to_finalize returns exactly the experiments whose
\* status is pending or running and all of whose runs have been completed by
\* update_experiment_run_result (status completed, result recorded): none of them
\* is still pending.
C6_ReadyExactlyWhenAllRunsCompleted ==
    last_call.op = "get_experiments_ready_to_finalize" =>
        /\ last_call.ret \subseteq DOMAIN experiments
        /\ \A e \in DOMAIN experiments :
              e \in last_call.ret <=>
                 /\ experiments[e].status \in OpenStatuses
                 /\ \A r \in RunsOf(e) :
                       /\ experiment_runs[r].status = "completed"
                       /\ experiment_runs[r].result \in RunResults

\* an experiment with three runs, all completed, is returned
C6_Witness ==
    /\ last_call.op = "get_experiments_ready_to_finalize"
    /\ \E e \in last_call.ret :
          /\ Cardinality(RunsOf(e)) >= 3
          /\ \A r \in RunsOf(e) : experiment_runs[r].status = "completed"

\* C7: finalize_experiment takes effect at most once: once an experiment is
\* completed or failed, no later call changes its status or result_summary.
C7_FinalizeTakesEffectOnce ==
    [][\A e \in DOMAIN experiments :
          experiments[e].status \in FinalStatuses
              => experiments'[e] = experiments[e]]_vars

\* C8 as claimed: once update_experiment_run_result has set the result of a run,
\* no operation changes it.
C8_RunResultWriteOnce ==
    [][\A r \in DOMAIN experiment_runs :
          experiment_runs[r].status = "completed"
              => experiment_runs'[r].result = experiment_runs[r].result]_vars

\* C8 as amended: once update_experiment_run_result has set the result of a run,
\* the only operation that changes it is a further update_experiment_run_result
\* call on that same run.
C8_ResultChangedOnlyByItsOwnUpdate ==
    [][\A r \in DOMAIN experiment_runs :
          (/\ experiment_runs[r].status = "completed"
           /\ experiment_runs'[r].result # experiment_runs[r].result)
              => (/\ last_call'.op = "update_experiment_run_result"
                  /\ last_call'.arg = r)]_vars

\* a run holds its result, its experiment has since been finalized and another
\* run of the table has been written
C8_Witness ==
    \E r \in DOMAIN experiment_runs :
        /\ experiment_runs[r].status = "completed"
        /\ experiment_runs[r].result \in RunResults
        /\ last_call.op = "finalize_experiment"
        /\ last_call.arg = experiment_runs[r].experiment_id
        /\ \E q \in DOMAIN experiment_runs :
              /\ q # r
              /\ experiment_runs[q].status = "completed"
              /\ experiment_runs[q].result # experiment_runs[r].result

\* C9: after sequential upsert_user_policy_overlay calls for a user, the user
\* has exactly one active overlay row, its routing_override is the payload of
\* the last call, and every call returned that row's id.
C9_SequentialUpsertKeepsOneRow ==
    \A u \in Users :
        upsert_log[u] # <<>> =>
            LET log == upsert_log[u] IN
            /\ Cardinality(ActiveOverlays(u)) = 1
            /\ \A i \in ActiveOverlays(u) :
                  /\ user_policies[i].routing_override
                        = log[Len(log)].routing_override
                  /\ \A k \in DOMAIN log : log[k].ret = i

\* two completed calls for one user with different routing_override payloads
C9_Witness ==
    /\ UpsertsIdle
    /\ \E u \in Users :
          /\ Len(upsert_log[u]) >= 2
          /\ upsert_log[u][1].routing_override # upsert_log[u][2].routing_override

\* C10: concurrent upsert_user_policy_overlay calls for one user never leave
\* more than one active overlay row for that user.
C10_AtMostOneActiveOverlayPerUser ==
    \A u \in Users : Cardinality(ActiveOverlays(u)) <= 1

C12_MergeAssociativeAndRightIdentity ==
    /\ (/\ last_call.op = "deep_merge_chain"
        /\ DOMAIN last_call.arg.a.d \cap DOMAIN last_call.arg.b.d = {}
        /\ DOMAIN last_call.arg.a.d \cap DOMAIN last_call.arg.c.d = {}
        /\ DOMAIN last_call.arg.b.d \cap DOMAIN last_call.arg.c.d = {})
       => last_call.ret.left = last_call.ret.right
    /\ (last_call.op = "deep_merge" /\ last_call.arg.b = EmptyDict)
       => last_call.ret = last_call.arg.a

\* three non-empty mappings with disjoint keys, one of them holding a nested
\* mapping, merged in both groupings
C12_Witness ==
    /\ last_call.op = "deep_merge_chain"
    /\ DOMAIN last_call.arg.a.d # {}
    /\ DOMAIN last_call.arg.b.d # {}
    /\ DOMAIN last_call.arg.c.d # {}
    /\ \E k \in DOMAIN last_call.arg.b.d :
          IsDict(last_call.arg.b.d[k]) /\ DOMAIN last_call.arg.b.d[k].d # {}
    /\ DOMAIN last_call.ret.left = {"d"}
    /\ DOMAIN last_call.ret.left.d = TopKeys

\* C13: the policy apply_user_policy_overlay returns has the fields of the base
\* policy, and every field other than routing and tool_use, safety_overrides
\* among them, holds the base policy's value.
C13_OverlayLeavesOtherFieldsAlone ==
    last_call.op = "apply_user_policy_overlay" =>
        LET base == last_call.arg.base_policy
            ret == last_call.ret IN
        /\ IsDict(ret)
        /\ DOMAIN ret.d \ {"routing", "tool_use"} = DOMAIN base.d \ {"routing", "tool_use"}
        /\ \A k \in DOMAIN base.d \ {"routing", "tool_use"} : ret.d[k] = base.d[k]
        /\ ret.d["safety_overrides"] = base.d["safety_overrides"]

\* a call for a user whose active overlay changed the routing of a base policy
\* that has safety overrides of its own
C13_Witness ==
    /\ last_call.op = "apply_user_policy_overlay"
    /\ last_call.arg.user_id \in Users
    /\ ActiveOverlays(last_call.arg.user_id) # {}
    /\ last_call.arg.base_policy.d["safety_overrides"] # EmptyDict
    /\ last_call.ret.d["routing"] # last_call.arg.base_policy.d["routing"]
    /\ last_call.ret.d["tool_use"] # last_call.arg.base_policy.d["tool_use"]

\* C14: when the user is not identified (no user_id) or has no active overlay,
\* apply_user_policy_overlay returns the base policy unmodified (it returns; it
\* raises nothing).
C14_NoOverlayReturnsBasePolicy ==
    (/\ last_call.op = "apply_user_policy_overlay"
     /\ \/ last_call.arg.user_id \in {None, ""}
        \/ ActiveOverlays(last_call.arg.user_id) = {})
    => last_call.ret = last_call.arg.base_policy

\* a call for an identified user without an overlay, made while another user
\* has an active one, on a base policy with a routing of its own
C14_Witness ==
    /\ last_call.op = "apply_user_policy_overlay"
    /\ last_call.arg.user_id \in Users
    /\ ActiveOverlays(last_call.arg.user_id) = {}
    /\ \E u \in Users : ActiveOverlays(u) # {}
    /\ last_call.arg.base_policy.d["routing"] # EmptyDict
    /\ last_call.ret = last_call.arg.base_policy

\* the weight one trace's feedback adds to a label (the vote table)
VoteWeight(fb, label) ==
    CASE label = "gentle" ->
            (IF TagIs(fb, "too_blunt") /\ Truthy(fb, "thumbs_down") THEN 2 ELSE 0)
            + (IF TagIs(fb, "kind_helpful") /\ Truthy(fb, "thumbs_up") THEN 3 ELSE 0)
      [] label = "direct" ->
            (IF TagIs(fb, "too_soft") /\ Truthy(fb, "thumbs_down") THEN 2 ELSE 0)
            + (IF TagIs(fb, "direct_helpful") /\ Truthy(fb, "thumbs_up") THEN 3 ELSE 0)
      [] label = "concise" ->
            IF TagIs(fb, "too_long") /\ Truthy(fb, "thumbs_down") THEN 3 ELSE 0
      [] label = "detailed" ->
            IF TagIs(fb, "too_short") /\ Truthy(fb, "thumbs_down") THEN 3 ELSE 0
      [] label = "balanced" ->
            IF TagIs(fb, "just_right_detail") /\ Truthy(fb, "thumbs_up") THEN 2 ELSE 0
      [] label = "strict" -> IF Truthy(fb, "flag_unsafe_output") THEN 3 ELSE 0
      [] label = "relaxed" -> IF Truthy(fb, "complained_too_cautious") THEN 2 ELSE 0

\* the weight a list of traces accumulates on a label
RECURSIVE TotalWeight(_, _)
TotalWeight(trace_list, label) ==
    IF trace_list = <<>> THEN 0
    ELSE VoteWeight(Head(trace_list), label) + TotalWeight(Tail(trace_list), label)

\* the vote labels of a dimension, and the name a label is emitted under
VoteLabels(dim) ==
    IF dim = "tone" THEN {"direct", "gentle"}
    ELSE IF dim = "detail_level" THEN {"concise", "detailed", "balanced"}
    ELSE {"strict", "relaxed"}

EmittedAs(label) == IF label = "balanced" THEN "medium" ELSE label

\* the same traces in every order
Reorderings(trace_list) ==
    {[i \in DOMAIN trace_list |-> trace_list[p[i]]] :
        p \in {q \in [DOMAIN trace_list -> DOMAIN trace_list] :
                  \A i, j \in DOMAIN trace_list : q[i] = q[j] => i = j}}

\* C15: infer_preferences_from_traces emits for each dimension a label of the
\* highest accumulated weight, a dimension without a vote is absent from the
\* result, and the result (hence the winner of a tie) does not depend on the
\* order of the traces.
C15_HighestWeightWinsInAnyTraceOrder ==
    last_call.op = "infer_preferences_from_traces" =>
        LET trace_list == last_call.arg
            prefs == last_call.ret IN
        /\ IsDict(prefs)
        /\ \A dim \in PrefDims :
              LET voted == {l \in VoteLabels(dim) : TotalWeight(trace_list, l) > 0} IN
              IF voted = {} THEN dim \notin DOMAIN prefs.d
              ELSE /\ dim \in DOMAIN prefs.d
                   /\ \E l \in voted :
                         /\ prefs.d[dim] = Scalar(EmittedAs(l))
                         /\ \A m \in voted :
                               TotalWeight(trace_list, m) <= TotalWeight(trace_list, l)
        /\ \A other \in Reorderings(trace_list) :
              infer_preferences_from_traces(other) = prefs

\* the values a document holds at outer.key: none or one
At(v, outer, key) ==
    IF outer \in DOMAIN v.d /\ IsDict(v.d[outer]) /\ key \in DOMAIN v.d[outer].d
    THEN {v.d[outer].d[key]} ELSE {}

\* C16: build_user_policy_overlay_from_prefs follows the fixed table: tone
\* direct/gentle gives style.directness high/low; detail_level
\* concise/detailed gives style.max_tokens_per_reply 256/1024 and medium none;
\* safety_bias strict gives safety.extra_checks true and safety.min_sources 3,
\* relaxed gives safety.extra_checks false and no min_sources; any other or
\* missing value adds nothing.  And traces whose only votes are too_blunt with
\* thumbs_down yield tone gentle and style.directness low.
C16_OverlayFollowsFixedTable ==
    last_call.op = "build_user_policy_overlay_from_prefs" =>
        LET prefs == last_call.arg
            ro == last_call.ret
            tone == Get(prefs, "tone", Scalar(None)).s
            detail == Get(prefs, "detail_level", Scalar(None)).s
            safety_bias == Get(prefs, "safety_bias", Scalar(None)).s IN
        /\ IsDict(ro)
        /\ At(ro, "style", "directness") =
              (IF tone = "direct" THEN {Scalar("high")}
               ELSE IF tone = "gentle" THEN {Scalar("low")} ELSE {})
        /\ At(ro, "style", "max_tokens_per_reply") =
              (IF detail = "concise" THEN {Scalar(256)}
               ELSE IF detail = "detailed" THEN {Scalar(1024)} ELSE {})
        /\ At(ro, "safety", "extra_checks") =
              (IF safety_bias = "strict" THEN {Scalar(TRUE)}
               ELSE IF safety_bias = "relaxed" THEN {Scalar(FALSE)} ELSE {})
        /\ At(ro, "safety", "min_sources") =
              (IF safety_bias = "strict" THEN {Scalar(3)} ELSE {})
        /\ DOMAIN ro.d \subseteq {"style", "safety"}
        /\ \A outer \in DOMAIN ro.d :
              /\ IsDict(ro.d[outer])
              /\ DOMAIN ro.d[outer].d # {}
              /\ DOMAIN ro.d[outer].d \subseteq
                    (IF outer = "style" THEN {"directness", "max_tokens_per_reply"}
                     ELSE {"extra_checks", "min_sources"})
        /\ (/\ DOMAIN args = {"traces"}
            /\ \E i \in DOMAIN args.traces : VoteWeight(args.traces[i], "gentle") = 2
            /\ \A i \in DOMAIN args.traces, l \in UNION {VoteLabels(dim) : dim \in PrefDims} :
                  VoteWeight(args.traces[i], l) > 0
                  => l = "gentle" /\ TagIs(args.traces[i], "too_blunt"))
           => /\ prefs = Dict([tone |-> Scalar("gentle")])
              /\ ro = Dict([style |-> Dict([directness |-> Scalar("low")])])

\* the overlay built from the preferences inferred from two too_blunt,
\* thumbs_down traces (and one trace without a vote)
C16_Witness ==
    /\ last_call.op = "build_user_policy_overlay_from_prefs"
    /\ DOMAIN args = {"traces"}
    /\ Len(args.traces) = 3
    /\ \E i, j \in DOMAIN args.traces :
          /\ i # j
          /\ args.traces[i] = Feedback("too_blunt", "down")
          /\ args.traces[j] = Feedback("too_blunt", "down")
    /\ \E i \in DOMAIN args.traces : args.traces[i] = EmptyDict
    /\ last_call.ret = Dict([style |-> Dict([directness |-> Scalar("low")])])

\* the preferences the synthesizer infers for a user from the traces stored
InferredPrefs(u) == infer_preferences_from_traces(fetch_user_traces(u))

\* the user's profile holds every inferred preference
ProfileHolds(u, prefs) ==
    /\ IsDict(users[u])
    /\ "preferences" \in DOMAIN users[u].d
    /\ \A k \in DOMAIN prefs.d :
          /\ k \in DOMAIN users[u].d["preferences"].d
          /\ users[u].d["preferences"].d[k] = prefs.d[k]

\* C17: when one user's processing raises inside run_user_preference_meta_cycle,
\* every other eligible user that has inferred preferences still has its
\* profile and its overlay written when the cycle ends.
C17_FailureDoesNotAbortRemainingUsers ==
    cycle.pc = "raised" =>
        \A k \in DOMAIN cycle.user_ids :
           LET u == cycle.user_ids[k] IN
           (k # cycle.i /\ IsDict(InferredPrefs(u)) /\ InferredPrefs(u) # EmptyDict)
           => ProfileHolds(u, InferredPrefs(u)) /\ ActiveOverlays(u) # {}

\* C18: when a run_user_preference_meta_cycle has completed, every eligible
\* user with at least one inferred preference has the preferences in its
\* profile and has an active overlay whose base_policy_id is the id of the
\* active policy version.
C18_CompletedCycleWroteProfileAndOverlay ==
    (cycle.pc = "returned" /\ cycle.report = "completed") =>
        \A k \in DOMAIN cycle.user_ids :
           LET u == cycle.user_ids[k] IN
           (IsDict(InferredPrefs(u)) /\ InferredPrefs(u) # EmptyDict)
           => /\ ProfileHolds(u, InferredPrefs(u))
              /\ \E r \in ActiveOverlays(u) :
                    user_policies[r].base_policy_id = ActivePolicyVersion

\* C19: when no user has at least min_traces traces, the cycle writes nothing
\* (the user profiles, the overlay rows and the policy versions stay as they
\* are), reports "no users with enough traces" and returns.
C19_NoEligibleUserNoWrite ==
    [][/\ (/\ cycle.pc = "idle"
           /\ cycle'.pc # "idle"
           /\ \A u \in Users : Len(traces[u]) < cycle'.min_traces)
          => /\ cycle'.pc = "returned"
             /\ cycle'.report = "no users with enough traces"
             /\ UNCHANGED <<users, user_policies, policy_versions>>
       /\ cycle.report = "no users with enough traces"
          => UNCHANGED <<users, user_policies, policy_versions, cycle>>]_vars

\* a cycle that returned for want of eligible users although traces and an
\* active policy version exist
C19_Witness ==
    /\ cycle.pc = "returned"
    /\ cycle.report = "no users with enough traces"
    /\ \E u \in Users : traces[u] # <<>>
    /\ ActivePolicyVersion # NoRow

\* C20: when no policy version is active, the cycle aborts before it processes
\* a user: it reports "no active global policy" and returns (it does not
\* raise), and no user profile and no overlay row is written, whatever users
\* are eligible.
C20_NoActivePolicyAborts ==
    [][/\ (cycle.pc = "idle" /\ cycle'.pc # "idle")
          => UNCHANGED <<users, user_policies>>
       /\ (cycle.pc = "read_policy" /\ ActivePolicyVersion = NoRow)
          => /\ cycle'.pc = "returned"
             /\ cycle'.report = "no active global policy"
             /\ UNCHANGED <<users, user_policies>>
       /\ cycle.report = "no active global policy"
          => UNCHANGED <<users, user_policies, cycle>>]_vars

\* a cycle that returned for want of an active policy version although both
\* users were eligible, one of them with preferences that map to an overlay
C20_Witness ==
    /\ cycle.pc = "returned"
    /\ cycle.report = "no active global policy"
    /\ Len(cycle.user_ids) = 2
    /\ policy_versions # <<>>
    /\ \E u \in Users :
          /\ IsDict(InferredPrefs(u))
          /\ build_user_policy_overlay_from_prefs(InferredPrefs(u)) # EmptyDict
    /\ users = InitialUsers
    /\ user_policies = <<>>

\* C21: an update_proposal_status call leaves final_policy_version,
\* final_self_prompt_id and reason of its proposal unchanged where the argument
\* is None and sets each of them to the argument where it is not; the status is
\* set to the argument; no other proposal is modified.
C21_UpdateCoalescesAndTouchesOneRow ==
    [][last_call'.op = "update_proposal_status" =>
          LET p == last_call'.arg IN
          /\ DOMAIN proposals' = DOMAIN proposals
          /\ \A q \in DOMAIN proposals : q # p => proposals'[q] = proposals[q]
          /\ p \in DOMAIN proposals =>
                /\ proposals'[p].status = last_call'.status
                /\ proposals'[p].final_policy_version =
                      IF last_call'.final_policy_version = NoRow
                      THEN proposals[p].final_policy_version
                      ELSE last_call'.final_policy_version
                /\ proposals'[p].final_self_prompt_id =
                      IF last_call'.final_self_prompt_id = NoRow
                      THEN proposals[p].final_self_prompt_id
                      ELSE last_call'.final_self_prompt_id
                /\ proposals'[p].reason =
                      IF last_call'.reason = None
                      THEN proposals[p].reason
                      ELSE last_call'.reason]_vars

\* a call that passed a final_policy_version but neither a reason nor a
\* final_self_prompt_id, on a proposal that kept its reason, next to another
\* proposal
C21_Witness ==
    /\ last_call.op = "update_proposal_status"
    /\ last_call.reason = None
    /\ last_call.final_self_prompt_id = NoRow
    /\ last_call.final_policy_version # NoRow
    /\ Len(proposals) = 2
    /\ proposals[last_call.arg].reason \in Reasons
    /\ proposals[last_call.arg].final_policy_version = last_call.final_policy_version
    /\ proposals[last_call.arg].final_self_prompt_id = NoRow
    /\ proposals[last_call.arg].status = "accepted"

\* ---- C22
\* the calls on user u that have committed
CommittedUpdates(u) ==
    {w \in Workers : upp[w].pc = "returned" /\ upp[w].user_id = u}

\* the calls on user u that have started
StartedUpdates(u) ==
    {w \in Workers : upp[w].pc # "idle" /\ upp[w].user_id = u}

\* the patches of the calls started on u are over pairwise different keys
DifferentKeys(u) ==
    \A v, w \in StartedUpdates(u) :
        v # w => DOMAIN upp[v].pref_patch.d \cap DOMAIN upp[w].pref_patch.d = {}

PatchedKeys(u) ==
    UNION {DOMAIN upp[w].pref_patch.d : w \in StartedUpdates(u)}

StoredPreferences(u) == Get(OrEmpty(users[u]), "preferences", EmptyDict)

InitialPreferences(u) == Get(OrEmpty(InitialUsers[u]), "preferences", EmptyDict)

\* C22: concurrent update_user_profile_preferences calls on the same user with
\* patches over different keys lose no update: the stored preferences hold every
\* key of every committed call with the value of its patch, and every key the
\* user had before that no patch names keeps its value.
C22_ConcurrentPatchesAreNotLost ==
    \A u \in Users :
        DifferentKeys(u) =>
          /\ \A w \in CommittedUpdates(u) :
                \A k \in DOMAIN upp[w].pref_patch.d :
                    /\ k \in DOMAIN StoredPreferences(u).d
                    /\ StoredPreferences(u).d[k] = upp[w].pref_patch.d[k]
          /\ \A k \in DOMAIN InitialPreferences(u).d \ PatchedKeys(u) :
                /\ k \in DOMAIN StoredPreferences(u).d
                /\ StoredPreferences(u).d[k] = InitialPreferences(u).d[k]

\* two calls on u2, which has stored preferences, over different keys have both
\* committed, one of them having read the row the other one wrote
C22_Witness ==
    /\ Cardinality(CommittedUpdates("u2")) >= 2
    /\ DifferentKeys("u2")
    /\ \E v, w \in CommittedUpdates("u2") :
          /\ v # w
          /\ Get(upp[w].row, "preferences", EmptyDict).d
               = DictUpdate(InitialPreferences("u2"), upp[v].pref_patch).d
    /\ "language" \in DOMAIN StoredPreferences("u2").d


\* C23: when a set_active_policy call that began while another call with a
\* different target was open has committed, and no call is open, exactly one
\* policy version is active.
C23_ConcurrentActivationsLeaveOneActive ==
    (/\ AllIdle
     /\ last_call.op = "set_active_policy"
     /\ last_call.others \ {last_call.arg} # {})
        => Cardinality(ActiveIds(policy_versions)) = 1


\* C24: an experiment that get_experiments_ready_to_finalize returns owns at
\* least one run; in particular an experiment for which no run has been created
\* yet is not returned.
C24_ReadyExperimentOwnsARun ==
    last_call.op = "get_experiments_ready_to_finalize" =>
        \A e \in last_call.ret : RunsOf(e) # {}

\* C25: once an experiment is completed or failed it stays so, and no
\* get_experiments_ready_to_finalize call returns it, whatever runs are created
\* for it and whatever results are recorded afterwards.
C25_FinalizedIsNeverReadyAgain ==
    [][\A e \in DOMAIN experiments :
          experiments[e].status \in FinalStatuses =>
              /\ experiments'[e].status \in FinalStatuses
              /\ last_call'.op = "get_experiments_ready_to_finalize"
                    => e \notin last_call'.ret]_vars

\* a query made when a finalized experiment owns runs, all of them completed,
\* returns another experiment and not that one
C25_Witness ==
    /\ last_call.op = "get_experiments_ready_to_finalize"
    /\ last_call.ret # {}
    /\ \E e \in DOMAIN experiments \ last_call.ret :
          /\ experiments[e].status \in FinalStatuses
          /\ RunsOf(e) # {}
          /\ \A r \in RunsOf(e) : experiment_runs[r].status = "completed"


\* ---- C26
OpenExperiment(e) ==
    e \in DOMAIN experiments /\ experiments[e].status \in OpenStatuses

FinalizedExperiment(e) ==
    e \in DOMAIN experiments /\ experiments[e].status \in FinalStatuses

ReturnedReady(e) ==
    last_call.op = "get_experiments_ready_to_finalize" /\ e \in last_call.ret

====
